---- MODULE Spec2Model ----
(***************************************************************************)
(* Model of the MCP-over-HTTP adapter (api/mcp_adapter.py): the Access     *)
(* Gate check_api_key, the JSON-RPC dispatcher handle_mcp_method and the   *)
(* POST /mcp endpoint handle_mcp_request, served for one or several        *)
(* concurrent connections.  A handler is cut at its suspension points      *)
(* (the awaits); the code between two awaits is one atomic step.           *)
(***************************************************************************)
EXTENDS Integers, Sequences, FiniteSets, TLC

(***************************************************************************)
(* Bounds of the model.                                                    *)
(***************************************************************************)
MaxId == 1
MaxContent == 2
NumConns == 2

(***************************************************************************)
(* Python / JSON values.  Every value is a record tagged by its type:      *)
(* None and JSON null are the same value, as json.loads makes them.        *)
(***************************************************************************)
None == [t |-> "null"]
JStr(s) == [t |-> "str", v |-> s]
JNum(n) == [t |-> "num", v |-> n]
JList(xs) == [t |-> "list", v |-> xs]
JObj(f) == [t |-> "obj", v |-> f]
EmptyDict == JObj(<<>>)

\* A Python str given character by character (header values, secrets).
Chars(cs) == [t |-> "chars", v |-> cs]

\* bool(x) as Python evaluates it in `not x`, `x or y`, `if x`.
Truthy(x) ==
    CASE x.t = "null" -> FALSE
      [] x.t = "chars" -> x.v # <<>>
      [] x.t = "str" -> x.v # ""
      [] x.t = "num" -> x.v # 0
      [] x.t = "list" -> x.v # <<>>
      [] x.t = "obj" -> DOMAIN x.v # {}

\* x or y
PyOr(x, y) == IF Truthy(x) THEN x ELSE y

\* d.get(k, default) on a dict (and on Headers); the caller checks d is one.
DictGet(d, k, default) == IF k \in DOMAIN d THEN d[k] ELSE default

\* s.startswith(p) and s[n:] on character sequences.
StartsWith(s, p) == Len(s) >= Len(p) /\ SubSeq(s, 1, Len(p)) = p
DropFirst(s, n) == SubSeq(s, n + 1, Len(s))

(***************************************************************************)
(* Access Gate: check_api_key.  env is os.environ.get("MCP_API_KEY"),      *)
(* headers maps the header names present to their values.                  *)
(***************************************************************************)
BearerPrefix == <<"B", "e", "a", "r", "e", "r", " ">>

\* The gate without the Bearer handling.
StripBearerKeepsPrefix(key) == key

StripBearer(key) ==
    IF Truthy(key) /\ StartsWith(key.v, BearerPrefix)
    THEN Chars(DropFirst(key.v, 7))
    ELSE key

\* The gate preferring the Authorization header.
ProvidedKeyAuthorizationFirst(headers) ==
    PyOr(DictGet(headers, "Authorization", None), DictGet(headers, "X-API-Key", None))

ProvidedKey(headers) ==
    PyOr(DictGet(headers, "X-API-Key", None), DictGet(headers, "Authorization", None))

check_api_key(env, headers) ==
    IF ~Truthy(env)
    THEN TRUE
    ELSE StripBearer(ProvidedKey(headers)) = env

(***************************************************************************)
(* Tool Registry: the FastMCP server built in api/index.py.                *)
(***************************************************************************)
Tool(name, description) ==
    [name |-> name, description |-> description, inputSchema |-> <<"schema of ", name>>]

mcp ==
    [name |-> "Vercel MCP Server",
     tools |-> << Tool("list_jobs", JStr("Execute a swap transaction.")),
                  Tool("show_job_details", JStr("Execute a swap transaction.")),
                  Tool("parse_resume", JStr("Parse the resume file from the google drive URL.")),
                  Tool("apply_to_job", JStr("Apply to a job.")) >>]

ToolNames(server) == {server.tools[i].name : i \in DOMAIN server.tools}

(***************************************************************************)
(* Outcomes of Python calls: a returned value or a raised exception whose  *)
(* str() is message (a sequence of text pieces, concatenated).             *)
(***************************************************************************)
Ok(v) == [exc |-> "none", value |-> v]
Raise(type, message) == [exc |-> type, message |-> message]

\* type(x).__name__
PyTypeName(x) ==
    CASE x.t = "null" -> "NoneType"
      [] x.t = "str" -> "str"
      [] x.t = "num" -> "int"
      [] x.t = "list" -> "list"
      [] x.t = "obj" -> "dict"
      [] x.t = "bool" -> "bool"
      [] x.t \in {"text", "chars"} -> "str"

\* x.get(...) on a value that is not a dict
NoGet(x) == Raise("AttributeError", <<"'", PyTypeName(x), "' object has no attribute 'get'">>)

\* str(x) inside an f-string
PyFormat(x) ==
    CASE x.t = "str" -> x.v
      [] x.t = "null" -> "None"
      [] OTHER -> PyTypeName(x)

(***************************************************************************)
(* get_tools_from_mcp: the descriptors in the order list_tools gives them. *)
(***************************************************************************)
\* get_tools_from_mcp listing the tools last-registered first.
get_tools_from_mcp_reversed(server) ==
    [i \in DOMAIN server.tools |->
        LET tool == server.tools[Len(server.tools) + 1 - i]
        IN  [name |-> tool.name,
             description |-> PyOr(tool.description, JStr("")).v,
             inputSchema |-> tool.inputSchema]]

get_tools_from_mcp(server) ==
    [i \in DOMAIN server.tools |->
        [name |-> server.tools[i].name,
         description |-> PyOr(server.tools[i].description, JStr("")).v,
         inputSchema |-> server.tools[i].inputSchema]]

(***************************************************************************)
(* What client.call_tool does: an unregistered name raises, a registered   *)
(* tool gives the outcome its implementation produces (items or a raise).  *)
(***************************************************************************)
Texts == {"hi", "yo"}
Items == [type : {"text"}, text : Texts] \cup {[type |-> "image", data |-> "png"]}
ItemSeqs == UNION {[1..n -> Items] : n \in 0..MaxContent}
ToolOutcomes == {Ok(items) : items \in ItemSeqs} \cup {Raise("ToolError", <<"Error calling tool">>)}

client_call_tool(server, tool_name, outcome) ==
    IF tool_name.t = "str" /\ tool_name.v \in ToolNames(server)
    THEN outcome
    ELSE Raise("ToolError", <<"Unknown tool: ", PyFormat(tool_name)>>)

\* str(item) of a content item without a text attribute
ItemRepr(item) == "ImageContent"

(***************************************************************************)
(* call_mcp_tool                                                           *)
(***************************************************************************)
\* call_mcp_tool reporting a failed call as an empty result.
call_mcp_tool_swallows(server, tool_name, arguments, outcome) ==
    LET result == client_call_tool(server, tool_name, outcome)
    IN  IF result.exc # "none"
        THEN [content |-> <<>>, isError |-> TRUE]
        ELSE [content |->
                [i \in DOMAIN result.value |->
                    IF "text" \in DOMAIN result.value[i]
                    THEN [type |-> "text", text |-> result.value[i].text]
                    ELSE [type |-> "text", text |-> ItemRepr(result.value[i])]],
              isError |-> FALSE]

call_mcp_tool(server, tool_name, arguments, outcome) ==
    LET result == client_call_tool(server, tool_name, outcome)
    IN  IF result.exc # "none"
        THEN [error |-> [code |-> -32603, message |-> result.message]]
        ELSE [content |->
                [i \in DOMAIN result.value |->
                    IF "text" \in DOMAIN result.value[i]
                    THEN [type |-> "text", text |-> result.value[i].text]
                    ELSE [type |-> "text", text |-> ItemRepr(result.value[i])]],
              isError |-> FALSE]

(***************************************************************************)
(* handle_mcp_method, up to its first await: it returns a response, raises *)
(* or suspends on a registry call (Await).  resume_tools_list and          *)
(* resume_tools_call are the rest of the two branches that suspend.        *)
(***************************************************************************)
Await(call, tool_name, arguments) ==
    [exc |-> "await", call |-> call, tool_name |-> tool_name, arguments |-> arguments]

\* The dispatcher validating params.name before it resolves the method.
handle_mcp_method_params_first(server, method, params, request_id) ==
    IF params.t # "obj"
    THEN NoGet(params)
    ELSE LET tool_name == DictGet(params.v, "name", None)
             arguments == DictGet(params.v, "arguments", EmptyDict)
         IN  IF method # JStr("ping") /\ method # JStr("tools/list") /\ ~Truthy(tool_name)
             THEN Ok([jsonrpc |-> "2.0", id |-> request_id,
                      error |-> [code |-> -32602, message |-> <<"Missing tool name">>]])
             ELSE IF method = JStr("initialize")
             THEN Ok([jsonrpc |-> "2.0", id |-> request_id,
                      result |-> [protocolVersion |-> "2024-11-05",
                                  capabilities |-> [tools |-> [listChanged |-> TRUE]],
                                  serverInfo |-> [name |-> server.name, version |-> "1.0.0"]]])
             ELSE IF method = JStr("tools/list")
             THEN Await("list_tools", None, None)
             ELSE IF method = JStr("tools/call")
             THEN Await("call_tool", tool_name, arguments)
             ELSE IF method = JStr("ping")
             THEN Ok([jsonrpc |-> "2.0", id |-> request_id, result |-> <<>>])
             ELSE Ok([jsonrpc |-> "2.0", id |-> request_id,
                      error |-> [code |-> -32601,
                                 message |-> <<"Method '", PyFormat(method), "' not found">>]])

handle_mcp_method(server, method, params, request_id) ==
    IF method = JStr("initialize")
    THEN Ok([jsonrpc |-> "2.0", id |-> request_id,
             result |-> [protocolVersion |-> "2024-11-05",
                         capabilities |-> [tools |-> [listChanged |-> TRUE]],
                         serverInfo |-> [name |-> server.name, version |-> "1.0.0"]]])
    ELSE IF method = JStr("tools/list")
    THEN Await("list_tools", None, None)
    ELSE IF method = JStr("tools/call")
    THEN IF params.t # "obj"
         THEN NoGet(params)
         ELSE LET tool_name == DictGet(params.v, "name", None)
                  arguments == DictGet(params.v, "arguments", EmptyDict)
              IN  IF ~Truthy(tool_name)
                  THEN Ok([jsonrpc |-> "2.0", id |-> request_id,
                           error |-> [code |-> -32602, message |-> <<"Missing tool name">>]])
                  ELSE Await("call_tool", tool_name, arguments)
    ELSE IF method = JStr("ping")
    THEN Ok([jsonrpc |-> "2.0", id |-> request_id, result |-> <<>>])
    ELSE Ok([jsonrpc |-> "2.0", id |-> request_id,
             error |-> [code |-> -32601,
                        message |-> <<"Method '", PyFormat(method), "' not found">>]])

resume_tools_list(server, request_id) ==
    Ok([jsonrpc |-> "2.0", id |-> request_id,
        result |-> [tools |-> get_tools_from_mcp(server)]])

\* The tools/call branch merging the tool's dict into the envelope.
resume_tools_call_merged(server, request_id, tool_name, arguments, outcome) ==
    Ok([jsonrpc |-> "2.0", id |-> request_id]
            @@ call_mcp_tool(server, tool_name, arguments, outcome))

resume_tools_call(server, request_id, tool_name, arguments, outcome) ==
    LET result == call_mcp_tool(server, tool_name, arguments, outcome)
    IN  IF "error" \in DOMAIN result
        THEN Ok([jsonrpc |-> "2.0", id |-> request_id, error |-> result.error])
        ELSE Ok([jsonrpc |-> "2.0", id |-> request_id, result |-> result])

(***************************************************************************)
(* Request bodies.  A body is bytes that do not decode as UTF-8, text that *)
(* json.loads rejects, or the text of a JSON value.                        *)
(***************************************************************************)
BadUtf8 == [decodes |-> FALSE]
NotJson == [decodes |-> TRUE, parses |-> FALSE]
JsonText(v) == [decodes |-> TRUE, parses |-> TRUE, value |-> v]

\* json.loads(body.decode())
json_loads(body) ==
    IF ~body.decodes
    THEN Raise("UnicodeDecodeError", <<"'utf-8' codec can't decode byte">>)
    ELSE IF ~body.parses
    THEN Raise("JSONDecodeError", <<"Expecting value">>)
    ELSE Ok(body.value)

(***************************************************************************)
(* Responses of POST /mcp.                                                 *)
(***************************************************************************)
JSONResponse(content, status_code) ==
    [status |-> status_code, media_type |-> "application/json", content |-> content]

\* What the framework answers when an exception leaves the handler.
ServerError ==
    [status |-> 500, media_type |-> "text/plain", content |-> [text |-> "Internal Server Error"]]

Returned(response) == [escaped |-> FALSE, response |-> response]
Escaped == [escaped |-> TRUE, response |-> ServerError]

\* except json.JSONDecodeError
except_JSONDecodeError ==
    Returned(JSONResponse([jsonrpc |-> "2.0", id |-> None,
                           error |-> [code |-> -32700, message |-> <<"Parse error">>]], 400))

\* except Exception as e, with str(e) = message and the handler's locals
except_Exception(message, locals) ==
    IF "request_data" \in DOMAIN locals /\ locals.request_data.t # "obj"
    THEN Escaped
    ELSE Returned(JSONResponse(
            [jsonrpc |-> "2.0",
             id |-> IF "request_data" \in DOMAIN locals
                    THEN DictGet(locals.request_data.v, "id", None)
                    ELSE None,
             error |-> [code |-> -32603, message |-> <<"Internal error: ">> \o message]], 500))

\* The except clauses of handle_mcp_request applied to a raised exception.
Catch(raised, locals) ==
    IF raised.exc = "JSONDecodeError"
    THEN except_JSONDecodeError
    ELSE except_Exception(raised.message, locals)

HTTPException(status_code, detail) == Raise("HTTPException", <<status_code, ": ", detail>>)

(***************************************************************************)
(* The requests the clients send.                                          *)
(***************************************************************************)
Secret == <<"s">>
Wrong == <<"x">>
HeaderValues ==
    {<<>>, Secret, Wrong, BearerPrefix \o Secret, BearerPrefix \o Wrong,
     BearerPrefix \o BearerPrefix \o Secret}
HeaderNames == {"X-API-Key", "Authorization"}
HeaderSets == UNION {[names -> {Chars(v) : v \in HeaderValues}] : names \in SUBSET HeaderNames}

\* os.environ.get("MCP_API_KEY"): unset, empty or a secret
Envs == {None, Chars(<<>>), Chars(Secret), Chars(BearerPrefix \o Secret)}

Methods == {"initialize", "tools/list", "tools/call", "ping", "notifications/initialized"}
Ids == {None} \cup {JNum(n) : n \in 1..MaxId}
ParamsValues ==
    { None, EmptyDict, JList(<<>>),
      JObj([name |-> None]), JObj([name |-> JStr("")]),
      JObj([arguments |-> EmptyDict]),
      JObj([name |-> JStr("list_jobs")]),
      JObj([name |-> JStr("parse_resume"), arguments |-> JObj([url |-> JStr("u")])]),
      JObj([name |-> JStr("echo"), arguments |-> EmptyDict]) }

\* A JSON object with the given members; Absent marks a member left out.
Absent == [t |-> "absent"]

Members(method, params, id) ==
    LET all == [jsonrpc |-> JStr("2.0"), method |-> method, params |-> params, id |-> id]
        keys == {k \in DOMAIN all : all[k] # Absent}
    IN  JObj([k \in keys |-> all[k]])

RequestObjects ==
    {Members(m, p, i) : m \in {JStr(x) : x \in Methods} \cup {Absent},
                        p \in ParamsValues \cup {Absent},
                        i \in Ids \cup {Absent}}

Bodies ==
    {BadUtf8, NotJson} \cup {JsonText(v) : v \in {None, JList(<<>>), JNum(1)} \cup RequestObjects}

\* Every header combination with a few bodies, and every body with a few
\* header combinations.
FewHeaderSets ==
    { <<>>,
      [x \in {"X-API-Key"} |-> Chars(Secret)],
      [x \in {"X-API-Key"} |-> Chars(Wrong)],
      [x \in {"Authorization"} |-> Chars(BearerPrefix \o Secret)] }

FewBodies ==
    { NotJson,
      JsonText(Members(JStr("tools/list"), Absent, JNum(1))),
      JsonText(Members(JStr("tools/call"), JObj([name |-> JStr("list_jobs")]), JNum(1))) }

Requests == [headers : HeaderSets, body : FewBodies] \cup [headers : FewHeaderSets, body : Bodies]

(***************************************************************************)
(* State: the configured secret and, per connection, the handler serving   *)
(* it: its position, its request, its local variables, the calls it has    *)
(* made so far and its response.  api is a call of                         *)
(* HireStreamAPIClient._api_call; bridge and local are the Bridge Process  *)
(* and the local requests it is serving.                                   *)
(***************************************************************************)
VARIABLES env, conn, api, bridge, local, installer

vars == <<env, conn, api, bridge, local, installer>>

\* No _api_call under way, no bridge started, no installer run.
NoApiCall == [pc |-> "off"]
NoBridge == [phase |-> "off"]
NoInstaller == [pc |-> "off"]

Idle ==
    [pc |-> "idle", request |-> None, locals |-> <<>>, trace |-> <<>>,
     outcome |-> None, escaped |-> FALSE, response |-> None]

Finish(h, result) ==
    [h EXCEPT !.pc = "done", !.escaped = result.escaped, !.response = result.response]

Init ==
    /\ env \in Envs
    /\ conn = [c \in {1} |-> Idle]
    /\ api = NoApiCall
    /\ bridge = NoBridge
    /\ local = <<>>
    /\ installer = NoInstaller

\* A request arrives on connection c.
Receive(c, req) ==
    /\ conn[c].pc = "idle"
    /\ conn' = [conn EXCEPT ![c] = [@ EXCEPT !.pc = "start", !.request = req]]
    /\ UNCHANGED env

\* handle_mcp_request from its entry to `await request.body()`.
Start(c) ==
    /\ conn[c].pc = "start"
    /\ LET h == [conn[c] EXCEPT !.trace = <<"check_api_key">>]
       IN  conn' = [conn EXCEPT ![c] =
                IF ~check_api_key(env, h.request.headers)
                THEN Finish(h, Catch(HTTPException("403", "API key is required"), h.locals))
                ELSE [h EXCEPT !.pc = "body", !.trace = @ \o <<"request.body">>]]
    /\ UNCHANGED env

\* handle_mcp_request from the body's arrival to the response or to the
\* registry call on which handle_mcp_method suspends.
Dispatch(c) ==
    /\ conn[c].pc = "body"
    /\ LET h0 == [conn[c] EXCEPT !.trace = @ \o <<"json.loads">>]
           loaded == json_loads(h0.request.body)
       IN  conn' = [conn EXCEPT ![c] =
             IF loaded.exc # "none"
             THEN Finish(h0, Catch(loaded, h0.locals))
             ELSE LET request_data == loaded.value
                      h1 == [h0 EXCEPT !.locals = [request_data |-> request_data]]
                  IN  IF request_data.t # "obj"
                      THEN Finish(h1, Catch(NoGet(request_data), h1.locals))
                      ELSE LET method == DictGet(request_data.v, "method", None)
                               params == DictGet(request_data.v, "params", EmptyDict)
                               request_id == DictGet(request_data.v, "id", None)
                               h2 == [h1 EXCEPT
                                        !.locals = [request_data |-> request_data,
                                                    method |-> method,
                                                    params |-> params,
                                                    request_id |-> request_id],
                                        !.trace = @ \o <<"handle_mcp_method">>]
                               r == handle_mcp_method(mcp, method, params, request_id)
                           IN  IF r.exc = "await"
                               THEN [h2 EXCEPT !.pc = r.call,
                                               !.trace = @ \o <<r.call>>,
                                               !.locals = [k \in DOMAIN @ \cup {"tool_name", "arguments"} |->
                                                    CASE k = "tool_name" -> r.tool_name
                                                      [] k = "arguments" -> r.arguments
                                                      [] OTHER -> @[k]]]
                               ELSE IF r.exc = "none"
                               THEN Finish(h2, Returned(JSONResponse(r.value, 200)))
                               ELSE Finish(h2, Catch(r, h2.locals))]
    /\ UNCHANGED env

\* client.list_tools() returns: the rest of the tools/list branch.
ListTools(c) ==
    /\ conn[c].pc = "list_tools"
    /\ LET h == conn[c]
           r == resume_tools_list(mcp, h.locals.request_id)
       IN  conn' = [conn EXCEPT ![c] = Finish(h, Returned(JSONResponse(r.value, 200)))]
    /\ UNCHANGED env

\* client.call_tool() returns or raises: the rest of the tools/call branch.
CallTool(c, outcome) ==
    /\ conn[c].pc = "call_tool"
    /\ LET h == [conn[c] EXCEPT !.outcome = outcome]
           r == resume_tools_call(mcp, h.locals.request_id, h.locals.tool_name,
                                  h.locals.arguments, outcome)
       IN  conn' = [conn EXCEPT ![c] = Finish(h, Returned(JSONResponse(r.value, 200)))]
    /\ UNCHANGED env

\* A handler whose variables outlive the request, as a session would.
CloseKeepsLocals(c) ==
    /\ conn[c].pc = "done"
    /\ conn' = [conn EXCEPT ![c] = [Idle EXCEPT !.locals = conn[c].locals]]
    /\ UNCHANGED env

\* The response is sent; nothing of the handler survives.
Close(c) ==
    /\ conn[c].pc = "done"
    /\ conn' = [conn EXCEPT ![c] = Idle]
    /\ UNCHANGED env

Next ==
    \/ \E c \in DOMAIN conn, req \in Requests : Receive(c, req) /\ UNCHANGED <<api, bridge, local, installer>>
    \/ \E c \in DOMAIN conn : Start(c) /\ UNCHANGED <<api, bridge, local, installer>>
    \/ \E c \in DOMAIN conn : Dispatch(c) /\ UNCHANGED <<api, bridge, local, installer>>
    \/ \E c \in DOMAIN conn : ListTools(c) /\ UNCHANGED <<api, bridge, local, installer>>
    \/ \E c \in DOMAIN conn, outcome \in ToolOutcomes : CallTool(c, outcome) /\ UNCHANGED <<api, bridge, local, installer>>
    \/ \E c \in DOMAIN conn : Close(c) /\ UNCHANGED <<api, bridge, local, installer>>

Spec == Init /\ [][Next]_vars

(***************************************************************************)
(* Several connections served concurrently: the handlers interleave at     *)
(* their awaits.  The requests are a few of each kind.                     *)
(***************************************************************************)
ConcHeaderSets == {<<>>, [x \in {"X-API-Key"} |-> Chars(Secret)]}
ConcBodies ==
    { JsonText(Members(JStr("ping"), Absent, JNum(1))),
      JsonText(Members(JStr("tools/list"), Absent, JNum(1))),
      JsonText(Members(JStr("tools/call"), JObj([name |-> JStr("list_jobs")]), JNum(1))) }
ConcRequests == [headers : ConcHeaderSets, body : ConcBodies]
ConcOutcomes ==
    { Ok(<<>>), Ok(<<[type |-> "text", text |-> "hi"]>>), Raise("ToolError", <<"Error calling tool">>) }

InitConc ==
    /\ env \in {None, Chars(Secret)}
    /\ conn = [c \in 1..NumConns |-> Idle]
    /\ api = NoApiCall
    /\ bridge = NoBridge
    /\ local = <<>>
    /\ installer = NoInstaller

NextConc ==
    \/ \E c \in DOMAIN conn, req \in ConcRequests : Receive(c, req) /\ UNCHANGED <<api, bridge, local, installer>>
    \/ \E c \in DOMAIN conn : Start(c) /\ UNCHANGED <<api, bridge, local, installer>>
    \/ \E c \in DOMAIN conn : Dispatch(c) /\ UNCHANGED <<api, bridge, local, installer>>
    \/ \E c \in DOMAIN conn : ListTools(c) /\ UNCHANGED <<api, bridge, local, installer>>
    \/ \E c \in DOMAIN conn, outcome \in ConcOutcomes : CallTool(c, outcome) /\ UNCHANGED <<api, bridge, local, installer>>
    \/ \E c \in DOMAIN conn : Close(c) /\ UNCHANGED <<api, bridge, local, installer>>

SpecConc == InitConc /\ [][NextConc]_vars

(***************************************************************************)
(* HireStreamAPIClient._api_call (api/index.py).  upstream is what         *)
(* client.request gives: a raised transport error or a response with its   *)
(* status code, its text and its body.                                     *)
(***************************************************************************)
\* A str built from pieces (f-strings, str(e)), as a JSON value.
JText(pieces) == [t |-> "text", v |-> pieces]

UpstreamResponse(status_code, body) ==
    [status_code |-> status_code,
     text |-> IF body.parses THEN <<"{...}">> ELSE <<"<html>">>,
     body |-> body]

api_call(method, endpoint, payload, upstream) ==
    LET attempt ==
            IF upstream.exc # "none"
            THEN upstream
            ELSE LET response == upstream.value
                 IN  IF response.status_code >= 400
                     THEN Raise("Exception",
                                <<"API Error ", ToString(response.status_code), ": ">>
                                    \o response.text)
                     ELSE LET parsed == json_loads(response.body)
                          IN  IF parsed.exc = "none"
                              THEN Ok(parsed.value)
                              ELSE Ok(JObj([text |-> JText(response.text)]))
    IN  IF attempt.exc # "none"
        THEN Ok(JObj([text |-> JText(attempt.message)]))
        ELSE attempt

StatusCodes == {200, 201, 204, 301, 304, 399, 400, 401, 403, 404, 422, 429, 500, 502, 503}
UpstreamBodies == {NotJson, JsonText(JObj([count |-> JNum(1)])), JsonText(JList(<<>>))}
Upstreams ==
    {Ok(UpstreamResponse(s, b)) : s \in StatusCodes, b \in UpstreamBodies}
        \cup {Raise("ConnectError", <<"All connection attempts failed">>),
              Raise("ReadTimeout", <<"The read operation timed out">>)}
ApiCalls ==
    { [method |-> "GET", endpoint |-> "jobs/published-jobs/", payload |-> None],
      [method |-> "GET", endpoint |-> "jobs/uuid/view-job/", payload |-> None],
      [method |-> "POST", endpoint |-> "workflows/job-applications/",
       payload |-> JObj([job |-> JStr("uuid")])] }

InitApi ==
    /\ env = None
    /\ conn = <<>>
    /\ bridge = NoBridge
    /\ local = <<>>
    /\ installer = NoInstaller
    /\ \E call \in ApiCalls, upstream \in Upstreams :
          api = [pc |-> "called", call |-> call, upstream |-> upstream, returned |-> None]

\* One call of _api_call, from entry to return or raise.
ApiCall ==
    /\ api.pc = "called"
    /\ api' = [api EXCEPT
                 !.pc = "returned",
                 !.returned = api_call(api.call.method, api.call.endpoint,
                                       api.call.payload, api.upstream)]
    /\ UNCHANGED <<env, conn, bridge, local, installer>>

NextApi == ApiCall

SpecApi == InitApi /\ [][NextApi]_vars

(***************************************************************************)
(* The Bridge Process (bridge.py).  Python operations on JSON values that  *)
(* its handlers use; each returns a value or raises.                       *)
(***************************************************************************)
JBool(b) == [t |-> "bool", v |-> b]

\* k in x (a string is held as pieces: holding k as a piece stands for
\* holding it as a substring)
PyIn(k, x) ==
    CASE x.t = "obj" -> Ok(k \in DOMAIN x.v)
      [] x.t = "list" -> Ok(\E i \in DOMAIN x.v : x.v[i] = JStr(k))
      [] x.t = "str" -> Ok(x.v = k)
      [] x.t = "text" -> Ok(\E i \in DOMAIN x.v : x.v[i] = k)
      [] OTHER -> Raise("TypeError", <<"argument of type '", PyTypeName(x), "' is not iterable">>)

\* x[k] for a string key k
PyItem(x, k) ==
    CASE x.t = "obj" /\ k \in DOMAIN x.v -> Ok(x.v[k])
      [] x.t = "obj" /\ k \notin DOMAIN x.v -> Raise("KeyError", <<"'", k, "'">>)
      [] x.t = "list" -> Raise("TypeError", <<"list indices must be integers or slices, not str">>)
      [] x.t \in {"str", "text"} -> Raise("TypeError", <<"string indices must be integers">>)
      [] OTHER -> Raise("TypeError", <<"'", PyTypeName(x), "' object is not subscriptable">>)

\* x.get(k, default)
PyGet(x, k, default) ==
    IF x.t = "obj" THEN Ok(DictGet(x.v, k, default)) ELSE NoGet(x)

\* The elements of a finite set in some order.
RECURSIVE SetToSeq(_)
SetToSeq(S) ==
    IF S = {} THEN <<>> ELSE LET x == CHOOSE y \in S : TRUE IN <<x>> \o SetToSeq(S \ {x})

\* The items `for item in x` visits (the keys, for a dict).
PyIter(x) ==
    CASE x.t = "list" -> Ok(x.v)
      [] x.t = "obj" -> Ok([i \in 1..Cardinality(DOMAIN x.v) |-> JStr(SetToSeq(DOMAIN x.v)[i])])
      [] x.t = "str" -> IF x.v = "" THEN Ok(<<>>) ELSE Ok(<<x>>)
      [] x.t = "text" -> Ok([i \in DOMAIN x.v |-> JStr(x.v[i])])
      [] OTHER -> Raise("TypeError", <<"'", PyTypeName(x), "' object is not iterable">>)

\* str(x) as pieces of text
PyStr(x) ==
    CASE x.t = "text" -> x.v
      [] x.t = "str" -> <<x.v>>
      [] x.t = "null" -> <<"None">>
      [] OTHER -> <<PyTypeName(x)>>

IsStr(x) == x.t \in {"str", "text"}

\* The first exception raised while mapping f over the items, if any.
FirstRaise(results) ==
    IF \E i \in DOMAIN results : results[i].exc # "none"
    THEN results[CHOOSE i \in DOMAIN results :
                    /\ results[i].exc # "none"
                    /\ \A j \in DOMAIN results : j < i => results[j].exc = "none"]
    ELSE Ok([i \in DOMAIN results |-> results[i].value])

(***************************************************************************)
(* JSON encoding of the endpoint's response body, as the bridge's          *)
(* response.json() decodes it again.                                       *)
(***************************************************************************)
EncodeResult(result) ==
    IF "tools" \in DOMAIN result
    THEN JObj([tools |-> JList([i \in DOMAIN result.tools |->
                    JObj([name |-> JStr(result.tools[i].name),
                          description |-> JStr(result.tools[i].description),
                          inputSchema |-> JObj([title |-> JText(result.tools[i].inputSchema)])])])])
    ELSE IF "content" \in DOMAIN result
    THEN JObj([content |-> JList([i \in DOMAIN result.content |->
                    JObj([type |-> JStr(result.content[i].type),
                          text |-> JStr(result.content[i].text)])]),
               isError |-> JBool(result.isError)])
    ELSE IF "protocolVersion" \in DOMAIN result
    THEN JObj([protocolVersion |-> JStr(result.protocolVersion),
               capabilities |-> JObj([tools |-> JObj([listChanged |-> JBool(TRUE)])]),
               serverInfo |-> JObj([name |-> JStr(result.serverInfo.name),
                                    version |-> JStr(result.serverInfo.version)])])
    ELSE EmptyDict

EncodeEnvelope(content) ==
    JObj([k \in DOMAIN content |->
            CASE k = "jsonrpc" -> JStr(content.jsonrpc)
              [] k = "id" -> content.id
              [] k = "error" -> JObj([code |-> JNum(content.error.code),
                                      message |-> JText(content.error.message)])
              [] k = "result" -> EncodeResult(content.result)])

\* The HTTP response as the bridge's client receives it.
OnTheWire(response) ==
    [status_code |-> response.status,
     body |-> IF response.media_type = "application/json"
              THEN JsonText(EncodeEnvelope(response.content))
              ELSE NotJson]

(***************************************************************************)
(* RemoteMCPBridge: __init__ and forward_request.                          *)
(***************************************************************************)
HttpTimeout == 30

\* httpx.AsyncClient(timeout=...)
AsyncClient(timeout) == [state |-> "open", timeout |-> timeout]

\* A bridge whose client waits without limit.
RemoteMCPBridgeNoTimeout(environ) == [client |-> AsyncClient(None), api_key |-> environ]

\* RemoteMCPBridge(endpoint), with environ the MCP_API_KEY of its environment
RemoteMCPBridge(environ) == [client |-> AsyncClient(JNum(HttpTimeout)), api_key |-> environ]

\* The request forward_request posts: its headers and its JSON body.
ForwardedRequest(self, method, params) ==
    LET request_data ==
            [k \in {"jsonrpc", "method", "id"} \cup (IF Truthy(params) THEN {"params"} ELSE {}) |->
                CASE k = "jsonrpc" -> JStr("2.0")
                  [] k = "method" -> JStr(method)
                  [] k = "id" -> JNum(1)
                  [] k = "params" -> params]
        headers ==
            [k \in {"Content-Type", "Accept"}
                    \cup (IF Truthy(self.api_key) THEN {"X-API-Key"} ELSE {}) |->
                CASE k = "Content-Type" -> Chars(<<"application/json">>)
                  [] k = "Accept" -> Chars(<<"application/json, text/event-stream">>)
                  [] k = "X-API-Key" -> self.api_key]
    IN  [headers |-> headers, body |-> JsonText(JObj(request_data))]

BridgeError(message) ==
    JObj([jsonrpc |-> JStr("2.0"),
          error |-> JObj([code |-> JNum(-32603),
                          message |-> JText(<<"Bridge error: ">> \o message)]),
          id |-> JNum(1)])

\* response.raise_for_status()
raise_for_status(response) ==
    IF response.status_code \in 200..299
    THEN Ok(response)
    ELSE Raise("HTTPStatusError",
               <<"Error response '", ToString(response.status_code), "' for url">>)

\* r, then f on its value unless r raised.
Then(r, f(_)) == IF r.exc # "none" THEN r ELSE f(r.value)

\* The try block of forward_request, given what `await self.client.post`
\* gave: the decoded body, or the exception raised.
post_try(posted) ==
    Then(posted, LAMBDA response :
    Then(raise_for_status(response), LAMBDA checked :
    json_loads(checked.body)))

\* forward_request without the status check.
forward_request_unchecked(posted) ==
    LET r == Then(posted, LAMBDA response : json_loads(response.body))
    IN  IF r.exc # "none" THEN BridgeError(r.message) ELSE r.value

forward_request(posted) ==
    LET r == post_try(posted)
    IN  IF r.exc # "none" THEN BridgeError(r.message) ELSE r.value

(***************************************************************************)
(* The two handlers, from the return of forward_request on.  Each gives    *)
(* what the handler returns to the local client and what it prints.        *)
(***************************************************************************)
\* types.Tool(name=..., description=..., inputSchema=...)
MakeTool(tool_data) ==
    LET name == PyItem(tool_data, "name")
        description == PyItem(tool_data, "description")
        inputSchema == PyItem(tool_data, "inputSchema")
    IN  IF name.exc # "none" THEN name
        ELSE IF description.exc # "none" THEN description
        ELSE IF inputSchema.exc # "none" THEN inputSchema
        ELSE IF ~IsStr(name.value) \/ ~(IsStr(description.value) \/ description.value = None)
                    \/ inputSchema.value.t # "obj"
        THEN Raise("ValidationError", <<"validation error for Tool">>)
        ELSE Ok([name |-> PyStr(name.value), inputSchema |-> inputSchema.value])

Handled(value, stderr) == [raised |-> FALSE, value |-> value, stderr |-> stderr]

\* The try block of handle_list_tools: the tools, or none found (the
\* elif/else branches), or the exception raised.
list_tools_try(response) ==
    LET tools == Then(PyItem(response, "result"), LAMBDA result :
                 Then(PyItem(result, "tools"), LAMBDA listed :
                 Then(PyIter(listed), LAMBDA items :
                 Then(FirstRaise([i \in DOMAIN items |-> MakeTool(items[i])]), LAMBDA made :
                 Ok([found |-> TRUE, tools |-> made])))))
    IN  Then(PyIn("result", response), LAMBDA has_result :
            IF ~has_result THEN Ok([found |-> FALSE])
            ELSE Then(PyItem(response, "result"), LAMBDA result :
                 Then(PyIn("tools", result), LAMBDA has_tools :
                    IF has_tools THEN tools ELSE Ok([found |-> FALSE]))))

handle_list_tools(response) ==
    LET body == list_tools_try(response)
    IN  IF body.exc # "none"
        THEN Handled(<<>>, <<"Error listing tools: ">> \o body.message)
        ELSE IF body.value.found
        THEN Handled(body.value.tools, <<"Successfully loaded tools">>)
        ELSE IF PyIn("error", response).value
        THEN Handled(<<>>, <<"Error from endpoint">>)
        ELSE Handled(<<>>, <<"Unexpected response format">>)

TextContent(text) == [type |-> "text", text |-> text]

\* One pass of the loop over result.get("content", []): the item appended,
\* or no item (an empty sequence) for content of another type.
ContentItem(content) ==
    LET type == PyGet(content, "type", None)
    IN  IF type.exc # "none" THEN type
        ELSE IF type.value # JStr("text") THEN Ok(<<>>)
        ELSE LET text == PyItem(content, "text")
             IN  IF text.exc # "none" THEN text
                 ELSE IF ~IsStr(text.value)
                 THEN Raise("ValidationError", <<"validation error for TextContent">>)
                 ELSE Ok(<<TextContent(PyStr(text.value))>>)

RECURSIVE Flatten(_)
Flatten(seqs) == IF seqs = <<>> THEN <<>> ELSE Head(seqs) \o Flatten(Tail(seqs))

\* The try block of handle_call_tool collecting the items last to first.
call_tool_try_reversed(response) ==
    Then(PyIn("result", response), LAMBDA has_result :
        IF has_result
        THEN Then(PyItem(response, "result"), LAMBDA result :
             Then(PyGet(result, "content", JList(<<>>)), LAMBDA content :
             Then(PyIter(content), LAMBDA listed :
             Then(FirstRaise([i \in DOMAIN listed |-> ContentItem(listed[Len(listed) + 1 - i])]),
                  LAMBDA items : Ok(Flatten(items))))))
        ELSE IF PyIn("error", response).value
        THEN Then(PyItem(response, "error"), LAMBDA error :
             Then(PyItem(error, "message"), LAMBDA message :
             Ok(<<TextContent(<<"Error: ">> \o PyStr(message))>>)))
        ELSE Ok(<<TextContent(<<"Unknown response format">>)>>))

\* The try block of handle_call_tool.
call_tool_try(response) ==
    Then(PyIn("result", response), LAMBDA has_result :
        IF has_result
        THEN Then(PyItem(response, "result"), LAMBDA result :
             Then(PyGet(result, "content", JList(<<>>)), LAMBDA content :
             Then(PyIter(content), LAMBDA listed :
             Then(FirstRaise([i \in DOMAIN listed |-> ContentItem(listed[i])]), LAMBDA items :
             Ok(Flatten(items))))))
        ELSE IF PyIn("error", response).value
        THEN Then(PyItem(response, "error"), LAMBDA error :
             Then(PyItem(error, "message"), LAMBDA message :
             Ok(<<TextContent(<<"Error: ">> \o PyStr(message))>>)))
        ELSE Ok(<<TextContent(<<"Unknown response format">>)>>))

\* handle_call_tool answering nothing for a response it does not know.
handle_call_tool_silent(response) ==
    LET body == call_tool_try(response)
    IN  IF body.exc # "none" \/ ~PyIn("result", response).value
        THEN Handled(<<>>, <<"Error calling tool">>)
        ELSE Handled(body.value, <<>>)

handle_call_tool(response) ==
    LET body == call_tool_try(response)
    IN  IF body.exc # "none"
        THEN Handled(<<TextContent(<<"Bridge error: ">> \o body.message)>>,
                     <<"Error calling tool">>)
        ELSE Handled(body.value, <<>>)

(***************************************************************************)
(* The bridge process: main.  One local request at a time is followed      *)
(* from its arrival on the stdio stream to its reply; the forwarded call   *)
(* goes to the POST /mcp handler above (connection l of conn) or is        *)
(* answered by whatever else listens at the endpoint.                      *)
(***************************************************************************)
LocalSlots == {1}

NoLocal ==
    [pc |-> "idle", kind |-> "none", name |-> None, sent |-> None, waited |-> 0,
     posted |-> None, produced |-> None, response |-> None, returned |-> None,
     before |-> "none"]

\* What a tool of the server produces, for the calls the bridge forwards.
BridgeOutcomes ==
    { Ok(<<>>),
      Ok(<<[type |-> "text", text |-> "hi"], [type |-> "text", text |-> "yo"]>>),
      Ok(<<[type |-> "text", text |-> "hi"], [type |-> "image", data |-> "png"]>>),
      Raise("ToolError", <<"Error calling tool">>) }

\* Names the local client calls: a registered tool and an unknown one.
LocalNames == {"list_jobs", "nope"}

\* Answers of an endpoint that is not this server, or of a gateway before it.
OddValues ==
    { None, JNum(7), JStr("result"), JList(<<>>), JList(<<JStr("result")>>), EmptyDict,
      JObj([result |-> None]),
      JObj([result |-> EmptyDict]),
      JObj([result |-> JObj([tools |-> JStr("ab")])]),
      JObj([result |-> JObj([tools |-> JList(<<JObj([name |-> JStr("t")])>>)])]),
      JObj([result |-> JObj([tools |-> JList(<<JObj([name |-> JNum(7), description |-> None,
                                                      inputSchema |-> EmptyDict])>>)])]),
      JObj([result |-> JObj([tools |-> JList(<<JObj([name |-> JStr("t"), description |-> None,
                                                      inputSchema |-> EmptyDict])>>)])]),
      JObj([result |-> JObj([content |-> None])]),
      JObj([result |-> JObj([content |-> JList(<<JStr("hi")>>)])]),
      JObj([result |-> JObj([content |-> JList(<<JObj([type |-> JStr("text")])>>)])]),
      JObj([result |-> JObj([content |-> JList(<<JObj([type |-> JStr("text"), text |-> JNum(7)])>>)])]),
      JObj([result |-> JObj([content |-> JList(<<JObj([type |-> JStr("image")]),
                                                  JObj([type |-> JStr("text"), text |-> JStr("hi")])>>)])]),
      JObj([error |-> JStr("boom")]),
      JObj([error |-> JObj([code |-> JNum(-32000)])]),
      JObj([error |-> JObj([code |-> JNum(-32000), message |-> JStr("boom")])]) }

OddReplies ==
    { [status_code |-> 502, body |-> NotJson],
      [status_code |-> 200, body |-> NotJson],
      [status_code |-> 200, body |-> BadUtf8],
      [status_code |-> 404, body |-> JsonText(JObj([detail |-> JStr("Not Found")]))] }
    \cup { [status_code |-> 200, body |-> JsonText(v)] : v \in OddValues }

InitBridge ==
    /\ env \in {None, Chars(Secret), Chars(BearerPrefix \o Secret)}
    /\ conn = [l \in LocalSlots |-> Idle]
    /\ api = NoApiCall
    /\ \E environ \in {None, Chars(<<>>), Chars(Secret), Chars(Wrong), Chars(BearerPrefix \o Secret)} :
            bridge = [phase |-> "running", self |-> RemoteMCPBridge(environ)]
    /\ local = [l \in LocalSlots |-> NoLocal]
    /\ installer = NoInstaller

\* The handler of local request l from its start to `await self.client.post`.
Request(l, kind, name) ==
    /\ bridge.phase = "running"
    /\ local[l].pc \in {"idle", "answered"}
    /\ local' = [local EXCEPT ![l] =
            [NoLocal EXCEPT
                !.pc = "posting", !.kind = kind, !.name = name,
                !.before = IF local[l].pc = "idle" THEN "none"
                           ELSE IF post_try(local[l].posted).exc # "none" THEN "failed" ELSE "ok",
                !.sent = IF kind = "list"
                         THEN ForwardedRequest(bridge.self, "tools/list", None)
                         ELSE ForwardedRequest(bridge.self, "tools/call",
                                    JObj([name |-> name, arguments |-> EmptyDict]))]]
    /\ UNCHANGED <<env, conn, api, bridge, installer>>

HandleListTools(l) == Request(l, "list", None)
HandleCallTool(l, name) == Request(l, "call", JStr(name))

\* The handler from the outcome of the post to its return.
Resume(l, posted, produced) ==
    LET response == forward_request(posted)
    IN  local' = [local EXCEPT ![l] =
            [@ EXCEPT !.pc = "returned", !.posted = posted, !.produced = produced,
                      !.waited = IF posted.exc = "ReadTimeout" THEN @ ELSE 0,
                      !.response = response,
                      !.returned = IF local[l].kind = "list" THEN handle_list_tools(response)
                                   ELSE handle_call_tool(response)]]

\* The request reaches the endpoint.
Connect(l) ==
    /\ local[l].pc = "posting"
    /\ Receive(l, local[l].sent)
    /\ local' = [local EXCEPT ![l] = [@ EXCEPT !.pc = "inflight"]]
    /\ UNCHANGED <<api, bridge, installer>>

\* The connection cannot be made.
ConnectFails(l) ==
    /\ local[l].pc = "posting"
    /\ Resume(l, Raise("ConnectError", <<"All connection attempts failed">>), None)
    /\ UNCHANGED <<env, conn, api, bridge, installer>>

\* A unit of time passes without an answer.
Tick(l) ==
    /\ local[l].pc = "inflight"
    /\ local[l].waited < HttpTimeout
    /\ local' = [local EXCEPT ![l] = [@ EXCEPT !.waited = @ + 1]]
    /\ UNCHANGED <<env, conn, api, bridge, installer>>

\* The client gives up; what the endpoint still does is read by nobody.
Timeout(l) ==
    /\ local[l].pc = "inflight"
    /\ bridge.self.client.timeout # None
    /\ local[l].waited >= bridge.self.client.timeout.v
    /\ Resume(l, Raise("ReadTimeout", <<"">>), None)
    /\ conn' = [conn EXCEPT ![l] = Idle]
    /\ UNCHANGED <<env, api, bridge, installer>>

\* A client that pairs responses with requests by their JSON-RPC id: the
\* handler of l reads the response of any connection answering id 1.
DeliverById(l) ==
    /\ local[l].pc = "inflight"
    /\ \E c \in DOMAIN conn : conn[c].pc = "done"
    /\ LET c == CHOOSE c \in DOMAIN conn : conn[c].pc = "done"
       IN  /\ Close(c)
           /\ Resume(l, Ok(OnTheWire(conn[c].response)), conn[c].outcome)
    /\ UNCHANGED <<api, bridge, installer>>

\* The handler of POST /mcp sends its response and the bridge reads it.
Deliver(l) ==
    /\ local[l].pc = "inflight"
    /\ Close(l)
    /\ Resume(l, Ok(OnTheWire(conn[l].response)), conn[l].outcome)
    /\ UNCHANGED <<api, bridge, installer>>

\* Something else answers in place of the handler.
OddReply(l, reply) ==
    /\ local[l].pc = "inflight"
    /\ conn[l].pc = "start"
    /\ conn' = [conn EXCEPT ![l] = Idle]
    /\ Resume(l, Ok(reply), None)
    /\ UNCHANGED <<env, api, bridge, installer>>

\* The reply is written to the local stream, or dropped once it is closed.
Reply(l) ==
    /\ local[l].pc = "returned"
    /\ local' = [local EXCEPT ![l] =
            [@ EXCEPT !.pc = IF bridge.phase = "running" THEN "answered" ELSE "dropped"]]
    /\ UNCHANGED <<env, conn, api, bridge, installer>>

\* The local stream ends: server.run returns.
StreamClose ==
    /\ bridge.phase = "running"
    /\ bridge' = [bridge EXCEPT !.phase = "closed"]
    /\ UNCHANGED <<env, conn, api, local, installer>>

\* A handler still under way when the stream has ended is cancelled.
Cancel(l) ==
    /\ bridge.phase = "closed"
    /\ local[l].pc \in {"posting", "inflight", "returned"}
    /\ local' = [local EXCEPT ![l] = [@ EXCEPT !.pc = "dropped"]]
    /\ conn' = [conn EXCEPT ![l] = IF local[l].pc = "inflight" THEN Idle ELSE @]
    /\ UNCHANGED <<env, api, bridge, installer>>

\* main returns and asyncio.run ends the process.
Exit ==
    /\ bridge.phase = "closed"
    /\ \A l \in DOMAIN local : local[l].pc \in {"idle", "answered", "dropped"}
    /\ bridge' = [bridge EXCEPT !.phase = "exited"]
    /\ UNCHANGED <<env, conn, api, local, installer>>

NextBridge ==
    \/ \E l \in DOMAIN local : HandleListTools(l)
    \/ \E l \in DOMAIN local, name \in LocalNames : HandleCallTool(l, name)
    \/ \E l \in DOMAIN local : Connect(l)
    \/ \E l \in DOMAIN local : ConnectFails(l)
    \/ \E l \in DOMAIN local : Tick(l)
    \/ \E l \in DOMAIN local : Timeout(l)
    \/ \E l \in DOMAIN local : Deliver(l)
    \/ \E l \in DOMAIN local, reply \in OddReplies : OddReply(l, reply)
    \/ \E l \in DOMAIN local : Reply(l)
    \/ StreamClose
    \/ \E l \in DOMAIN local : Cancel(l)
    \/ Exit
    \/ \E c \in DOMAIN conn : Start(c) /\ UNCHANGED <<api, bridge, local, installer>>
    \/ \E c \in DOMAIN conn : Dispatch(c) /\ UNCHANGED <<api, bridge, local, installer>>
    \/ \E c \in DOMAIN conn : ListTools(c) /\ UNCHANGED <<api, bridge, local, installer>>
    \/ \E c \in DOMAIN conn, outcome \in BridgeOutcomes : CallTool(c, outcome) /\ UNCHANGED <<api, bridge, local, installer>>

SpecBridge == InitBridge /\ [][NextBridge]_vars

\* The event loop runs every handler that can run, time passes, and the
\* client's timeout fires; nothing obliges the endpoint to answer.
FairBridge ==
    \A l \in LocalSlots :
        /\ WF_vars(Connect(l) \/ ConnectFails(l))
        /\ WF_vars(Tick(l))
        /\ WF_vars(Timeout(l))
        /\ WF_vars(Reply(l))

SpecBridgeFair == SpecBridge /\ FairBridge

(***************************************************************************)
(* Several local requests handled concurrently: the stdio server starts a  *)
(* task per request, and the handlers share the bridge and its one client. *)
(* The client opens a connection per forwarded call (connection l for the  *)
(* call of handler l).                                                     *)
(***************************************************************************)
NumLocals == 2

InitBridgeConc ==
    /\ env = Chars(Secret)
    /\ conn = [l \in 1..NumLocals |-> Idle]
    /\ api = NoApiCall
    /\ bridge = [phase |-> "running", self |-> RemoteMCPBridge(Chars(Secret))]
    /\ local = [l \in 1..NumLocals |-> NoLocal]
    /\ installer = NoInstaller

NextBridgeConc ==
    \/ \E l \in DOMAIN local : HandleListTools(l)
    \/ \E l \in DOMAIN local : HandleCallTool(l, "list_jobs")
    \/ \E l \in DOMAIN local : Connect(l)
    \/ \E l \in DOMAIN local : ConnectFails(l)
    \/ \E l \in DOMAIN local : Deliver(l)
    \/ \E l \in DOMAIN local : Reply(l)
    \/ \E c \in DOMAIN conn : Start(c) /\ UNCHANGED <<api, bridge, local, installer>>
    \/ \E c \in DOMAIN conn : Dispatch(c) /\ UNCHANGED <<api, bridge, local, installer>>
    \/ \E c \in DOMAIN conn : ListTools(c) /\ UNCHANGED <<api, bridge, local, installer>>
    \/ \E c \in DOMAIN conn, outcome \in ConcOutcomes : CallTool(c, outcome) /\ UNCHANGED <<api, bridge, local, installer>>

SpecBridgeConc == InitBridgeConc /\ [][NextBridgeConc]_vars

(***************************************************************************)
(* The installer: api/install.py.  A config file is absent or holds a text *)
(* in some layout; json.dump(indent=2) always writes the same layout.      *)
(***************************************************************************)
MaxRuns == 2

NoFile == [exists |-> FALSE]
File(layout, body) == [exists |-> TRUE, layout |-> layout, body |-> body]

UvPaths == <<"/opt/homebrew/bin/uv", "/usr/local/bin/uv", "uv">>

\* get_uv_command(), given the paths that exist on the machine
get_uv_command(existing) ==
    UvPaths[CHOOSE i \in DOMAIN UvPaths :
                /\ UvPaths[i] \in existing \/ UvPaths[i] = "uv"
                /\ \A j \in DOMAIN UvPaths :
                      j < i => ~(UvPaths[j] \in existing \/ UvPaths[j] = "uv")]

NewConfig == JObj([mcpServers |-> EmptyDict])

\* load_or_create_config starting every time from a new config.
load_or_create_config_new(file) == Ok(NewConfig)

load_or_create_config(file) ==
    IF ~file.exists
    THEN Ok(NewConfig)
    ELSE LET loaded == json_loads(file.body)
         IN  IF loaded.exc = "JSONDecodeError" THEN Ok(NewConfig) ELSE loaded

\* save_config
save_config(config_data) == File("indent2", JsonText(config_data))

\* d[k] = v on a dict
SetItem(d, k, v) == [x \in DOMAIN d \cup {k} |-> IF x = k THEN v ELSE d[x]]

\* The entry install_to_config builds.
ServerConfig(existing, server_url, bridge_url, api_key) ==
    LET command == JStr(get_uv_command(existing))
        args == JList(<<JStr("run"), JStr("--with"), JStr("mcp>=1.0.0"),
                        JStr(bridge_url), JStr(server_url)>>)
    IN  IF Truthy(api_key)
        THEN JObj([command |-> command, args |-> args,
                   env |-> JObj([MCP_API_KEY |-> api_key])])
        ELSE JObj([command |-> command, args |-> args])

\* install_to_config: what it returns or raises, and the file it leaves.
install_to_config(file, existing, server_url, bridge_url, server_name, api_key) ==
    LET loaded == load_or_create_config(file)
    IN  IF loaded.exc # "none" THEN [result |-> loaded, file |-> file]
        ELSE LET config == loaded.value
                 absent == PyIn("mcpServers", config)
             IN  IF absent.exc # "none" THEN [result |-> absent, file |-> file]
                 ELSE IF config.t # "obj"
                 THEN [result |-> PyItem(config, "mcpServers"), file |-> file]
                 ELSE LET ensured == IF "mcpServers" \in DOMAIN config.v THEN config.v
                                     ELSE SetItem(config.v, "mcpServers", EmptyDict)
                          servers == ensured.mcpServers
                      IN  IF servers.t # "obj"
                          THEN [result |-> Raise("TypeError",
                                    <<"'", PyTypeName(servers),
                                      "' object does not support item assignment">>),
                                file |-> file]
                          ELSE [result |-> Ok(TRUE),
                                file |-> save_config(JObj(SetItem(ensured, "mcpServers",
                                    JObj(SetItem(servers.v, server_name,
                                        ServerConfig(existing, server_url, bridge_url, api_key))))))]

\* Config files found on a machine.
OtherEntry == JObj([command |-> JStr("node")])
ConfigValues ==
    { EmptyDict,
      JObj([mcpServers |-> EmptyDict]),
      JObj([mcpServers |-> JObj([other |-> OtherEntry])]),
      JObj([mcpServers |-> JObj([other |-> OtherEntry, demo |-> OtherEntry])]),
      JObj([theme |-> JStr("dark"), mcpServers |-> JObj([other |-> OtherEntry])]),
      JObj([theme |-> JStr("dark")]),
      JObj([mcpServers |-> None]),
      JObj([mcpServers |-> JList(<<>>)]),
      JObj([mcpServers |-> JStr("x")]),
      JList(<<>>), None, JNum(1) }
Files ==
    {NoFile} \cup {File(layout, body) :
                      layout \in {"compact", "indent2"},
                      body \in {NotJson, BadUtf8} \cup {JsonText(v) : v \in ConfigValues}}

ServerUrl == "https://demo.vercel.app"
InstallArgs ==
    [server_url : {ServerUrl}, bridge_url : {"https://demo.vercel.app/bridge.py"},
     server_name : {"demo", "other"}, api_key : {None, JStr(""), JStr("k")}]

InitInstall ==
    /\ env = None
    /\ conn = <<>>
    /\ api = NoApiCall
    /\ bridge = NoBridge
    /\ local = <<>>
    /\ \E file \in Files, args \in InstallArgs, existing \in SUBSET {UvPaths[1], UvPaths[2]} :
          installer = [pc |-> "ready", original |-> file, file |-> file, args |-> args,
                       existing |-> existing, results |-> <<>>]

\* One run of install_to_config on the file.
Install ==
    /\ installer.pc = "ready"
    /\ Len(installer.results) < MaxRuns
    /\ LET a == installer.args
           r == install_to_config(installer.file, installer.existing, a.server_url,
                                  a.bridge_url, a.server_name, a.api_key)
       IN  installer' = [installer EXCEPT !.file = r.file,
                                          !.results = Append(@, r)]
    /\ UNCHANGED <<env, conn, api, bridge, local>>

NextInstall == Install

SpecInstall == InitInstall /\ [][NextInstall]_vars

(***************************************************************************)
(* Vocabulary of the properties.                                           *)
(***************************************************************************)
Conns == DOMAIN conn
Done(c) == conn[c].pc = "done"
Content(c) == conn[c].response.content
Called(c, what) == \E i \in DOMAIN conn[c].trace : conn[c].trace[i] = what

\* The request of connection c passes the Access Gate.
PassesGate(c) == check_api_key(env, conn[c].request.headers)

\* The body of connection c's request is the text of a JSON object.
IsObject(c) ==
    LET body == conn[c].request.body
    IN  body.decodes /\ body.parses /\ body.value.t = "obj"

\* Member k of that object, Absent if it has none.
Member(c, k) == DictGet(conn[c].request.body.value.v, k, Absent)

\* The id a response to connection c's request must carry.
RequestId(c) == IF Member(c, "id") = Absent THEN None ELSE Member(c, "id")

IsJsonRpc(c) == conn[c].response.media_type = "application/json"
                    /\ "jsonrpc" \in DOMAIN Content(c)
IsError(c, code) == /\ IsJsonRpc(c)
                    /\ "error" \in DOMAIN Content(c)
                    /\ "result" \notin DOMAIN Content(c)
                    /\ Content(c).error.code = code

KnownMethods == {JStr("initialize"), JStr("tools/list"), JStr("tools/call"), JStr("ping")}

(***************************************************************************)
(* C1: when a secret is configured and the request fails the Access Gate   *)
(* (missing or wrong key), the response is HTTP 403, the body is neither   *)
(* read nor parsed, and the response is not a JSON-RPC error envelope.     *)
(***************************************************************************)
GateFailureIs403 ==
    \A c \in Conns :
        (Done(c) /\ Truthy(env) /\ ~PassesGate(c))
            => /\ conn[c].response.status = 403
               /\ ~Called(c, "request.body")
               /\ ~Called(c, "json.loads")
               /\ ~IsJsonRpc(c)

(***************************************************************************)
(* C2: check_api_key lets every request pass when no secret is configured  *)
(* (unset or empty); with a secret configured it passes exactly the        *)
(* requests whose key (X-API-Key, or else Authorization), once a leading   *)
(* "Bearer " is removed, is the secret; a request with no key is rejected. *)
(* Stated without the code's stripping: the selected header value is the   *)
(* secret itself (and keeps all of it) or "Bearer " followed by the secret.*)
(***************************************************************************)
Checked(c) == conn[c].pc \notin {"idle", "start"}
Admitted(c) == Called(c, "request.body")

HasHeader(c, name) ==
    name \in DOMAIN conn[c].request.headers /\ conn[c].request.headers[name].v # <<>>

SelectedHeader(c) ==
    IF HasHeader(c, "X-API-Key") THEN "X-API-Key" ELSE "Authorization"

Presents(c, secret) ==
    /\ HasHeader(c, SelectedHeader(c))
    /\ LET value == conn[c].request.headers[SelectedHeader(c)].v
       IN  \/ value = BearerPrefix \o secret
           \/ value = secret /\ ~StartsWith(secret, BearerPrefix)

GateAdmitsExactlyTheSecret ==
    \A c \in Conns :
        Checked(c) =>
            (Admitted(c) <=> (env = None \/ env.v = <<>> \/ Presents(c, env.v)))

GateAdmitsBearerKey ==
    \E c \in Conns :
        /\ Checked(c) /\ Admitted(c)
        /\ env = Chars(Secret)
        /\ conn[c].request.headers = [x \in {"Authorization"} |-> Chars(BearerPrefix \o Secret)]

(***************************************************************************)
(* C3: a JSON-RPC request whose method is none of initialize, tools/list,  *)
(* tools/call, ping is answered with error -32601 and the request's id,    *)
(* whatever its params are; -32602 is never the answer.                    *)
(***************************************************************************)
UnknownMethod(c) == IsObject(c) /\ Member(c, "method") \notin KnownMethods

UnknownMethodIsMethodNotFound ==
    \A c \in Conns :
        (Done(c) /\ PassesGate(c) /\ UnknownMethod(c))
            => /\ conn[c].response.status = 200
               /\ IsError(c, -32601)
               /\ Content(c).id = RequestId(c)

UnknownMethodWithoutName ==
    \E c \in Conns :
        /\ Done(c) /\ PassesGate(c) /\ UnknownMethod(c)
        /\ Member(c, "method") = JStr("notifications/initialized")
        /\ Member(c, "params") = None
        /\ Member(c, "id") = JNum(1)
        /\ IsError(c, -32601)

(***************************************************************************)
(* C4: a tools/call request whose params.name is missing or empty (params  *)
(* absent, empty, null; name absent, null or "") is answered with error    *)
(* -32602 and the tool registry is not invoked.                            *)
(***************************************************************************)
NameMissing(c) ==
    /\ IsObject(c)
    /\ Member(c, "method") = JStr("tools/call")
    /\ \/ Member(c, "params") \in {Absent, None}
       \/ /\ Member(c, "params").t = "obj"
          /\ DictGet(Member(c, "params").v, "name", None) \in {None, JStr("")}

MissingNameIsInvalidParams ==
    \A c \in Conns :
        (Done(c) /\ PassesGate(c) /\ NameMissing(c))
            => IsError(c, -32602) /\ ~Called(c, "call_tool")

(***************************************************************************)
(* C5: a request that passes the gate and whose body cannot be parsed as   *)
(* JSON is answered with HTTP 400 and the -32700 "Parse error" envelope    *)
(* with id null, and the dispatcher is not reached.                        *)
(***************************************************************************)
Unparseable(c) ==
    LET body == conn[c].request.body IN ~body.decodes \/ ~body.parses

UnparseableBodyIsParseError ==
    \A c \in Conns :
        (Done(c) /\ PassesGate(c) /\ Unparseable(c))
            => /\ conn[c].response.status = 400
               /\ Content(c) = [jsonrpc |-> "2.0", id |-> None,
                                error |-> [code |-> -32700, message |-> <<"Parse error">>]]
               /\ ~Called(c, "handle_mcp_method")

(***************************************************************************)
(* C6: every JSON-RPC response body of POST /mcp has jsonrpc, id and       *)
(* exactly one of result and error: never both, never neither.             *)
(***************************************************************************)
ExactlyOneOfResultAndError ==
    \A c \in Conns :
        (Done(c) /\ conn[c].response.media_type = "application/json")
            => /\ {"jsonrpc", "id"} \subseteq DOMAIN Content(c)
               /\ ("result" \in DOMAIN Content(c)) # ("error" \in DOMAIN Content(c))

ToolFailureIsErrorOnly ==
    \E c \in Conns :
        /\ Done(c) /\ Called(c, "call_tool")
        /\ conn[c].outcome.exc = "ToolError"
        /\ DOMAIN Content(c) = {"jsonrpc", "id", "error"}

(***************************************************************************)
(* C7: a request whose id is absent or null is a notification; the         *)
(* endpoint sends no JSON-RPC response for it.                             *)
(***************************************************************************)
Notification(c) == IsObject(c) /\ Member(c, "id") \in {Absent, None}

NotificationGetsNoResponse ==
    \A c \in Conns :
        (Done(c) /\ PassesGate(c) /\ Notification(c)) => ~IsJsonRpc(c)

(***************************************************************************)
(* C8: an exception raised while the handler extracts method, params and   *)
(* id or dispatches (the body is JSON but not an object, or params is not  *)
(* an object) never leaves the handler: the response is HTTP 500 with a    *)
(* -32603 envelope carrying the exception's message and the request's id   *)
(* (null when there is none).                                              *)
(***************************************************************************)
Parsed(c) == LET body == conn[c].request.body IN body.decodes /\ body.parses

RaisesInDispatch(c) ==
    /\ Parsed(c)
    /\ \/ ~IsObject(c)
       \/ /\ Member(c, "method") = JStr("tools/call")
          /\ Member(c, "params") # Absent
          /\ Member(c, "params").t # "obj"

DispatchExceptionIsInternalError ==
    \A c \in Conns :
        (Done(c) /\ PassesGate(c) /\ RaisesInDispatch(c))
            => /\ ~conn[c].escaped
               /\ conn[c].response.status = 500
               /\ IsError(c, -32603)
               /\ Content(c).error.message[1] = "Internal error: "
               /\ Len(Content(c).error.message) > 1
               /\ Content(c).id = IF IsObject(c) THEN RequestId(c) ELSE None

(***************************************************************************)
(* C10: initialize never yields an error: whatever the params, the         *)
(* response is a result with protocolVersion "2024-11-05", capabilities    *)
(* {tools: {listChanged: true}} and the server identity, under the         *)
(* request's id.                                                           *)
(***************************************************************************)
Initialize(c) == IsObject(c) /\ Member(c, "method") = JStr("initialize")

InitializeNeverErrors ==
    \A c \in Conns :
        (Done(c) /\ PassesGate(c) /\ Initialize(c))
            => /\ conn[c].response.status = 200
               /\ Content(c) =
                    [jsonrpc |-> "2.0", id |-> RequestId(c),
                     result |-> [protocolVersion |-> "2024-11-05",
                                 capabilities |-> [tools |-> [listChanged |-> TRUE]],
                                 serverInfo |-> [name |-> "Vercel MCP Server",
                                                 version |-> "1.0.0"]]]

InitializeWithNullParams ==
    \E c \in Conns :
        /\ Done(c) /\ PassesGate(c) /\ Initialize(c)
        /\ Member(c, "params") = None
        /\ "result" \in DOMAIN Content(c)

(***************************************************************************)
(* C9: the endpoint is stateless.  For a fixed registry and secret the     *)
(* response to a request is determined by the request alone (and by what   *)
(* the tool it calls answers): two handlers given the same request return  *)
(* the same status and body, whatever was served before or is being served *)
(* concurrently.                                                           *)
(***************************************************************************)
ResponseDeterminedByRequest ==
    \A c, d \in Conns :
        (/\ Done(c) /\ Done(d)
         /\ conn[c].request = conn[d].request
         /\ conn[c].outcome = conn[d].outcome)
            => /\ conn[c].response = conn[d].response
               /\ conn[c].escaped = conn[d].escaped

TwoHandlersSameToolCall ==
    \E c, d \in Conns :
        /\ c # d /\ Done(c) /\ Done(d)
        /\ Called(c, "call_tool") /\ Called(d, "call_tool")
        /\ conn[c].request = conn[d].request
        /\ conn[c].outcome = conn[d].outcome
        /\ conn[c].response = conn[d].response

(***************************************************************************)
(* C11: tools/call with a non-empty params.name.  If the invocation        *)
(* succeeds the response is the result {content, isError: false}; if the   *)
(* tool is unregistered or the invocation raises, it is the error -32603   *)
(* whose message is the failure detail.  Either way the response carries   *)
(* the request's id and is a normal return of the dispatcher (HTTP 200,    *)
(* no exception).                                                          *)
(***************************************************************************)
NamedCall(c) ==
    /\ IsObject(c)
    /\ Member(c, "method") = JStr("tools/call")
    /\ Member(c, "params") # Absent
    /\ Member(c, "params").t = "obj"
    /\ Truthy(DictGet(Member(c, "params").v, "name", None))

CalledName(c) == DictGet(Member(c, "params").v, "name", None).v

ToolCallIsResultOrInternalError ==
    \A c \in Conns :
        (Done(c) /\ PassesGate(c) /\ NamedCall(c))
            => /\ ~conn[c].escaped
               /\ conn[c].response.status = 200
               /\ Content(c).id = RequestId(c)
               /\ IF CalledName(c) \in {"list_jobs", "show_job_details", "parse_resume", "apply_to_job"}
                  THEN IF conn[c].outcome.exc = "none"
                       THEN /\ DOMAIN Content(c) = {"jsonrpc", "id", "result"}
                            /\ DOMAIN Content(c).result = {"content", "isError"}
                            /\ Content(c).result.isError = FALSE
                            /\ Len(Content(c).result.content) = Len(conn[c].outcome.value)
                       ELSE /\ IsError(c, -32603)
                            /\ Content(c).error.message = conn[c].outcome.message
                  ELSE /\ IsError(c, -32603)
                       /\ Content(c).error.message = <<"Unknown tool: ", CalledName(c)>>

ToolRaisedIsInternalError ==
    \E c \in Conns :
        /\ Done(c) /\ PassesGate(c) /\ NamedCall(c)
        /\ CalledName(c) = "list_jobs"
        /\ conn[c].outcome.exc = "ToolError"
        /\ IsError(c, -32603)
        /\ Content(c).id = JNum(1)

(***************************************************************************)
(* C12: tools/list returns the registered descriptors in registration      *)
(* order, each name exactly once, and every tools/list gives the same      *)
(* ordered result whatever was requested before it.                        *)
(***************************************************************************)
ListsTools(c) == IsObject(c) /\ Member(c, "method") = JStr("tools/list")

ListedNames(c) ==
    [i \in DOMAIN Content(c).result.tools |-> Content(c).result.tools[i].name]

ToolsListInRegistrationOrder ==
    \A c \in Conns :
        (Done(c) /\ PassesGate(c) /\ ListsTools(c))
            => /\ conn[c].response.status = 200
               /\ DOMAIN Content(c) = {"jsonrpc", "id", "result"}
               /\ ListedNames(c) = <<"list_jobs", "show_job_details", "parse_resume", "apply_to_job">>
               /\ \A i, j \in DOMAIN ListedNames(c) :
                    ListedNames(c)[i] = ListedNames(c)[j] => i = j

ToolsListed ==
    \E c \in Conns :
        /\ Done(c) /\ PassesGate(c) /\ ListsTools(c)
        /\ Called(c, "list_tools")
        /\ Len(Content(c).result.tools) = 4

(***************************************************************************)
(* C20: with a secret configured, a non-empty X-API-Key decides alone: the *)
(* Authorization header is consulted only when X-API-Key is absent or      *)
(* empty, so a wrong X-API-Key is rejected even next to a correct Bearer   *)
(* Authorization; and "Bearer " is removed from the selected value, also   *)
(* when that value is the X-API-Key.                                       *)
(***************************************************************************)
HeaderValue(c, name) == conn[c].request.headers[name].v

\* The value v is accepted as a key for the secret.
Accepted(v, secret) ==
    IF StartsWith(v, BearerPrefix) THEN DropFirst(v, 7) = secret ELSE v = secret

XApiKeyTakesPrecedence ==
    \A c \in Conns :
        (Checked(c) /\ Truthy(env))
            => IF HasHeader(c, "X-API-Key")
               THEN Admitted(c) <=> Accepted(HeaderValue(c, "X-API-Key"), env.v)
               ELSE Admitted(c) <=> /\ HasHeader(c, "Authorization")
                                    /\ Accepted(HeaderValue(c, "Authorization"), env.v)

WrongXApiKeyBesideCorrectBearer ==
    \E c \in Conns :
        /\ Done(c) /\ env = Chars(Secret) /\ ~Admitted(c)
        /\ conn[c].request.headers =
              [x \in {"X-API-Key", "Authorization"} |->
                  IF x = "X-API-Key" THEN Chars(Wrong) ELSE Chars(BearerPrefix \o Secret)]

(***************************************************************************)
(* C19: _api_call raises an error to its caller when the upstream API      *)
(* answers with a status code of 400 or more.                              *)
(***************************************************************************)
ApiErrorStatusRaises ==
    (/\ api.pc = "returned"
     /\ api.upstream.exc = "none"
     /\ api.upstream.value.status_code >= 400)
        => api.returned.exc # "none"

(***************************************************************************)
(* Vocabulary of the bridge's properties.                                  *)
(***************************************************************************)
Locals == DOMAIN local

\* The handler of local request l has the outcome of its forwarded call.
Resumed(l) == local[l].pc \in {"returned", "answered"}

ConnectionFailed(l) == local[l].posted.exc = "ConnectError"
TimedOut(l) == local[l].posted.exc = "ReadTimeout"
GotResponse(l) == local[l].posted.exc = "none"
BadStatus(l) == GotResponse(l) /\ local[l].posted.value.status_code \notin 200..299
BodyNotJson(l) ==
    /\ GotResponse(l) /\ ~BadStatus(l)
    /\ ~(local[l].posted.value.body.decodes /\ local[l].posted.value.body.parses)

\* The forwarded call of l failed at the network or transport level.
ForwardFailed(l) == ConnectionFailed(l) \/ TimedOut(l) \/ BadStatus(l) \/ BodyNotJson(l)

\* x is a JSON-RPC error envelope of the bridge with code -32603.
IsBridgeError(x) ==
    /\ x.t = "obj" /\ DOMAIN x.v = {"jsonrpc", "error", "id"}
    /\ x.v.jsonrpc = JStr("2.0") /\ x.v.id = JNum(1)
    /\ x.v.error.t = "obj" /\ DOMAIN x.v.error.v = {"code", "message"}
    /\ x.v.error.v.code = JNum(-32603)
    /\ x.v.error.v.message.t = "text"
    /\ Head(x.v.error.v.message.v) = "Bridge error: "

\* The pieces of the message after "Bridge error: ".
Embedded(x) == Tail(x.v.error.v.message.v)

(***************************************************************************)
(* C13: forward_request never raises: a connection failure, a timeout, a   *)
(* status other than 2xx and a body that is not JSON each become an error  *)
(* envelope with code -32603 whose message embeds the failure, and after   *)
(* such a failure the bridge still takes the next local request.           *)
(***************************************************************************)
ForwardFailureIsErrorEnvelope ==
    \A l \in Locals :
        (Resumed(l) /\ ForwardFailed(l))
            => /\ IsBridgeError(local[l].response)
               /\ (ConnectionFailed(l) \/ TimedOut(l))
                    => Embedded(local[l].response) = local[l].posted.message
               /\ BadStatus(l)
                    => \E i \in DOMAIN Embedded(local[l].response) :
                          Embedded(local[l].response)[i] = ToString(local[l].posted.value.status_code)
               /\ BodyNotJson(l) => Embedded(local[l].response) # <<>>
               /\ (local[l].pc = "answered" /\ bridge.phase = "running")
                    => ENABLED HandleListTools(l)

\* A request is answered from the endpoint's result after one whose
\* forwarded call failed.
ServedAfterFailedForward ==
    \E l \in Locals :
        /\ local[l].pc = "answered" /\ local[l].before = "failed"
        /\ GotResponse(l) /\ ~ForwardFailed(l)
        /\ PyIn("result", local[l].response) = Ok(TRUE)

(***************************************************************************)
(* Shapes of what forward_request returns.                                 *)
(***************************************************************************)
HasMember(x, k) == x.t = "obj" /\ k \in DOMAIN x.v

\* A tools/list result the handler can turn into tools.
IsToolData(x) ==
    /\ x.t = "obj" /\ {"name", "description", "inputSchema"} \subseteq DOMAIN x.v
    /\ IsStr(x.v.name)
    /\ IsStr(x.v.description) \/ x.v.description = None
    /\ x.v.inputSchema.t = "obj"

ToolsWellFormed(x) ==
    /\ HasMember(x, "result") /\ HasMember(x.v.result, "tools")
    /\ x.v.result.v.tools.t = "list"
    /\ \A i \in DOMAIN x.v.result.v.tools.v : IsToolData(x.v.result.v.tools.v[i])

\* A text content item as the endpoint sends it.
IsTextItem(x) ==
    /\ HasMember(x, "type") /\ x.v.type = JStr("text")
    /\ HasMember(x, "text") /\ IsStr(x.v.text)

\* A content item of another type, or of none.
IsOtherItem(x) == x.t = "obj" /\ ("type" \in DOMAIN x.v => x.v.type # JStr("text"))

ContentWellFormed(x) ==
    /\ HasMember(x, "result") /\ HasMember(x.v.result, "content")
    /\ x.v.result.v.content.t = "list"
    /\ \A i \in DOMAIN x.v.result.v.content.v : IsTextItem(x.v.result.v.content.v[i])

\* A result whose content is missing, or holds items that are not text
\* beside well-formed text items.
ContentLacking(x) ==
    /\ HasMember(x, "result") /\ x.v.result.t = "obj"
    /\ ~ContentWellFormed(x)
    /\ "content" \in DOMAIN x.v.result.v
        => /\ x.v.result.v.content.t = "list"
           /\ \A i \in DOMAIN x.v.result.v.content.v :
                 IsTextItem(x.v.result.v.content.v[i]) \/ IsOtherItem(x.v.result.v.content.v[i])

\* An error envelope with a message.
IsErrorEnvelope(x) ==
    /\ x.t = "obj" /\ "result" \notin DOMAIN x.v
    /\ HasMember(x, "error") /\ HasMember(x.v.error, "message")

\* items are text content items, the first one an error message.
CarriesError(items) ==
    /\ items # <<>>
    /\ \A i \in DOMAIN items : items[i].type = "text"
    /\ Head(items[1].text) \in {"Error: ", "Bridge error: ", "Unknown response format"}

ListReturned(l) == Resumed(l) /\ local[l].kind = "list"
CallReturned(l) == Resumed(l) /\ local[l].kind = "call"

Pending(l) == local[l].pc \in {"posting", "inflight", "returned"}
Answered(l) == local[l].pc = "answered"

EveryLocalRequestAnswered ==
    \A l \in LocalSlots : Pending(l) ~> Answered(l)

(***************************************************************************)
(* C15, amended: every local request eventually gets a local response      *)
(* unless the local stream closes first; the wait for the endpoint never   *)
(* exceeds the timeout, and a call that timed out gives an error response. *)
(***************************************************************************)
WaitIsBounded ==
    \A l \in LocalSlots :
        /\ local[l].waited <= HttpTimeout
        /\ (Resumed(l) /\ TimedOut(l))
              => /\ local[l].waited = HttpTimeout
                 /\ IsBridgeError(local[l].response)
                 /\ local[l].kind = "list" => local[l].returned.value = <<>>
                 /\ local[l].kind = "call" => CarriesError(local[l].returned.value)

LocalRequestAnsweredUnlessClosed ==
    /\ []WaitIsBounded
    /\ \A l \in LocalSlots : Pending(l) ~> (Answered(l) \/ bridge.phase # "running")

\* A call that timed out has been answered with an error text.
TimedOutCallAnswered ==
    \E l \in LocalSlots :
        /\ Answered(l) /\ TimedOut(l) /\ local[l].kind = "call"
        /\ local[l].waited = HttpTimeout
        /\ CarriesError(local[l].returned.value)

(***************************************************************************)
(* C16: when the local stream closes the bridge stops forwarding, closes   *)
(* the HTTP client it opened at start-up before the process ends, and      *)
(* discards the result of a call still in flight.                          *)
(***************************************************************************)
StreamCloseReleasesClient ==
    /\ bridge.phase = "exited" => bridge.self.client.state = "closed"
    /\ bridge.phase = "exited" => \A l \in Locals : ~Pending(l)

(***************************************************************************)
(* C17: for a successful tools/call the content items the local client     *)
(* receives from the bridge equal, item for item and in the same order,    *)
(* the items the tool produced on the server.                              *)
(***************************************************************************)
\* The call of l was answered by the server with the result of a tool.
SuccessfulCall(l) ==
    /\ CallReturned(l) /\ GotResponse(l) /\ ~ForwardFailed(l)
    /\ HasMember(local[l].response, "result")
    /\ "exc" \in DOMAIN local[l].produced /\ local[l].produced.exc = "none"

Produced(l) == local[l].produced.value
Received(l) == local[l].returned.value

Rendering(item) == IF "text" \in DOMAIN item THEN item.text ELSE ItemRepr(item)

BridgeKey == bridge.self.api_key

BridgeKeyOpensGate ==
    \A l \in Locals :
        /\ local[l].pc # "idle"
            => /\ "X-API-Key" \in DOMAIN local[l].sent.headers <=> Truthy(BridgeKey)
               /\ Truthy(BridgeKey) => local[l].sent.headers["X-API-Key"] = BridgeKey
        /\ (local[l].pc = "inflight" /\ Checked(l) /\ Truthy(env))
            => /\ BridgeKey = env => Admitted(l)
               /\ BridgeKey # env => ~Admitted(l)

(***************************************************************************)
(* C21: every forwarded request carries the JSON-RPC id 1, and under any   *)
(* interleaving of concurrently handled local requests the reply of each   *)
(* is built only from the HTTP response to its own forwarded call.         *)
(***************************************************************************)
\* Every request sent, and every envelope the bridge makes itself, has id 1.
ForwardedIdIsOne ==
    \A l \in Locals :
        local[l].pc # "idle"
            => /\ local[l].sent.body.value.v.id = JNum(1)
               /\ (Resumed(l) /\ ~GotResponse(l)) => local[l].response.v.id = JNum(1)

\* A step in which handler l resumes with an HTTP response: the response is
\* the one the endpoint's handler made for the request l sent, and the
\* value l returns is computed from it alone.
ResumesWithOwnResponse(l) ==
    (local[l].pc = "inflight" /\ local'[l].pc = "returned" /\ local'[l].posted.exc = "none")
        => /\ conn[l].pc = "done"
           /\ conn[l].request = local[l].sent
           /\ local'[l].posted = Ok(OnTheWire(conn[l].response))
           /\ local'[l].response = forward_request(local'[l].posted)
           /\ local'[l].returned =
                 IF local[l].kind = "list"
                 THEN handle_list_tools(local'[l].response)
                 ELSE handle_call_tool(local'[l].response)

ReplyFromOwnResponse ==
    /\ []ForwardedIdIsOne
    /\ [][\A l \in 1..NumLocals : ResumesWithOwnResponse(l)]_vars

\* The second request has its tool result while the first, a tools/list
\* sent with the same id, still waits for its response, which is ready.
SecondAnsweredWhileFirstWaits ==
    /\ local[1].pc = "inflight" /\ local[1].kind = "list" /\ conn[1].pc = "done"
    /\ SuccessfulCall(2) /\ Received(2) = <<TextContent(<<"hi">>)>>
    /\ local[1].sent.body.value.v.id = local[2].sent.body.value.v.id

(***************************************************************************)
(* C22: install_to_config, run on an existing config file holding a        *)
(* readable JSON object, changes only the entry mcpServers[server_name]:   *)
(* every other entry of mcpServers and every other top-level key is        *)
(* written back unchanged; a second run with the same arguments leaves the *)
(* file the first run left.                                                *)
(***************************************************************************)
\* The file holds a readable JSON object.
HoldsObject(file) ==
    file.exists /\ file.body.decodes /\ file.body.parses /\ file.body.value.t = "obj"

Installed == installer.pc = "ready" /\ Len(installer.results) >= 1

ConfigBefore == installer.original.body.value.v
ConfigAfter == installer.file.body.value.v
ServersBefore ==
    IF "mcpServers" \in DOMAIN ConfigBefore THEN ConfigBefore.mcpServers ELSE EmptyDict

\* The entry the arguments ask for.
ExpectedEntry ==
    [k \in {"command", "args"} \cup (IF installer.args.api_key \in {None, JStr("")}
                                      THEN {} ELSE {"env"}) |->
        CASE k = "command" ->
                JStr(IF UvPaths[1] \in installer.existing THEN UvPaths[1]
                     ELSE IF UvPaths[2] \in installer.existing THEN UvPaths[2] ELSE "uv")
          [] k = "args" ->
                JList(<<JStr("run"), JStr("--with"), JStr("mcp>=1.0.0"),
                        JStr(installer.args.bridge_url), JStr(installer.args.server_url)>>)
          [] k = "env" -> JObj([MCP_API_KEY |-> installer.args.api_key])]

InstallChangesOnlyItsEntry ==
    (Installed /\ HoldsObject(installer.original))
        => /\ HoldsObject(installer.file)
           /\ DOMAIN ConfigAfter \ {"mcpServers"} = DOMAIN ConfigBefore \ {"mcpServers"}
           /\ \A k \in DOMAIN ConfigBefore \ {"mcpServers"} : ConfigAfter[k] = ConfigBefore[k]
           /\ IF ServersBefore.t = "obj"
              THEN /\ installer.results[1].result = Ok(TRUE)
                   /\ ConfigAfter.mcpServers.t = "obj"
                   /\ DOMAIN ConfigAfter.mcpServers.v
                        = DOMAIN ServersBefore.v \cup {installer.args.server_name}
                   /\ \A n \in DOMAIN ServersBefore.v \ {installer.args.server_name} :
                         ConfigAfter.mcpServers.v[n] = ServersBefore.v[n]
                   /\ ConfigAfter.mcpServers.v[installer.args.server_name] = JObj(ExpectedEntry)
              ELSE /\ installer.results[1].result.exc # "none"
                   /\ installer.file = installer.original
           /\ \A i \in DOMAIN installer.results :
                 installer.results[i].file = installer.results[1].file

\* Two runs on a file with a theme and another server, in another layout:
\* the file holds the theme, the other server and the new entry.
InstalledTwiceBesideOthers ==
    /\ Len(installer.results) = 2 /\ installer.args.server_name = "demo"
    /\ installer.original =
          File("compact", JsonText(JObj([theme |-> JStr("dark"),
                                         mcpServers |-> JObj([other |-> OtherEntry])])))
    /\ installer.file.layout = "indent2"
    /\ DOMAIN ConfigAfter = {"theme", "mcpServers"}
    /\ DOMAIN ConfigAfter.mcpServers.v = {"other", "demo"}

====
